---- MODULE Spec2Model ----
(***************************************************************************)
(* Sales-Dashboard v1.0: the Google-Sheets -> PostgreSQL synchronization   *)
(* script (google_sheets_to_postgres_sync.py), the webhook that launches   *)
(* it (webhook_server.py) and the dashboard (app_v1.py): its loader, its    *)
(* sidebar filters, its session state and its metrics.                     *)
(*                                                                         *)
(* Text values are sequences of one-character strings, so that strip(),    *)
(* lower() and title() are computed and not assumed.  NULL stands for      *)
(* Python's None / pandas' NaN / SQL NULL.                                 *)
(***************************************************************************)
EXTENDS Integers, Sequences, FiniteSets, TLC

VARIABLES
    hook,         \* hook[p]: state of the webhook request in slot p
    header,       \* header[p]: the X-Secret-Key header of that request
    pc,           \* pc[p]: position of the sync script launched by slot p
    rc,           \* rc[p]: exit status of that script (-1 while it has none)
    src,          \* src[p]: what reading the upstream sheet yielded in that pass
    txn,          \* txn[p]: rows inserted in the pass's open transaction
    ops,          \* ops[p]: SQL statements the pass has executed (history)
    fault,        \* fault[p]: the store step that failed in the pass ("none")
    prior,        \* prior[p]: committed table contents when the pass was launched
    rerun,        \* rerun[p]: the pass read the same source as the slot's previous pass
    prevFault,    \* prevFault[p]: fault of the slot's previous pass
    tableExists,  \* sales_data exists in the database
    table,        \* committed rows of sales_data, in insertion order
    rd,           \* the last read of sales_data by the dashboard's loader
    sheetCell,    \* loader pipeline: the raw sheet values of one row
    dbCell,       \* loader pipeline: the values stored for that row
    canon,        \* loader pipeline: the record the loader built from it
    loadStage,    \* loader pipeline: "sheet", "stored", "failed" or "loaded"
    sheet,        \* dashboard: the rows of the sheet the table was loaded from
    today,        \* dashboard: the current date
    current_user_df,  \* dashboard: what load_full_sales_data_from_db returned
    criteria,     \* dashboard: the sidebar's filters
    filtered_df,  \* dashboard: the records that pass the filters
    shown,        \* dashboard: the metrics rendered from filtered_df
    notices,      \* dashboard: the st.error / st.info messages of the last run
    picked        \* dashboard: the last date a date input's callback was given, and
                  \* the range it found (history)

syncVars == <<hook, header, pc, rc, src, txn, ops, fault, prior, rerun, prevFault, tableExists, table>>
loadVars == <<sheetCell, dbCell, canon, loadStage>>
reportVars == <<sheet, today, current_user_df, criteria, filtered_df, shown, notices, picked>>
vars == <<hook, header, pc, rc, src, txn, ops, fault, prior, rerun, prevFault, tableExists, table,
          rd, sheetCell, dbCell, canon, loadStage,
          sheet, today, current_user_df, criteria, filtered_df, shown, notices, picked>>

----------------------------------------------------------------------------
(* Bounds of the model *)

MaxRequests == 2        \* webhook request slots
MaxRows == 2            \* rows of a source sheet
MaxPad == 1             \* spaces put around a raw vocabulary value

----------------------------------------------------------------------------
(* Text *)

NULL == <<"<null>">>

UpperAlpha == <<"A","B","C","D","E","F","G","H","I","J","K","L","M","N","O","P","Q","R","S","T","U","V","W","X","Y","Z">>
LowerAlpha == <<"a","b","c","d","e","f","g","h","i","j","k","l","m","n","o","p","q","r","s","t","u","v","w","x","y","z">>

IsUpper(c) == \E i \in 1..Len(UpperAlpha) : UpperAlpha[i] = c
IsLower(c) == \E i \in 1..Len(LowerAlpha) : LowerAlpha[i] = c
IsCased(c) == IsUpper(c) \/ IsLower(c)
IsSpace(c) == c \in {" ", "\t", "\n"}

LowerChar(c) == IF IsUpper(c) THEN LowerAlpha[CHOOSE i \in 1..Len(UpperAlpha) : UpperAlpha[i] = c] ELSE c
UpperChar(c) == IF IsLower(c) THEN UpperAlpha[CHOOSE i \in 1..Len(LowerAlpha) : LowerAlpha[i] = c] ELSE c

\* str.lower()
StrLower(s) == [i \in 1..Len(s) |-> LowerChar(s[i])]

\* str.upper()
StrUpper(s) == [i \in 1..Len(s) |-> UpperChar(s[i])]

\* str.strip(): drop the leading and the trailing whitespace
StrStrip(s) ==
    LET keep == {i \in 1..Len(s) : ~IsSpace(s[i])}
    IN  IF keep = {} THEN <<>>
        ELSE LET lo == CHOOSE i \in keep : \A j \in keep : i <= j
                 hi == CHOOSE i \in keep : \A j \in keep : j <= i
             IN  SubSeq(s, lo, hi)

\* str.title(): upper-case a cased character that follows an uncased one, lower-case the others
StrTitle(s) ==
    [i \in 1..Len(s) |->
        IF i = 1 \/ ~IsCased(s[i - 1]) THEN UpperChar(s[i]) ELSE LowerChar(s[i])]

\* Series.astype(str): None becomes the text 'None'
AsTypeStr(v) == IF v = NULL THEN <<"N","o","n","e">> ELSE v

----------------------------------------------------------------------------
(* Numbers, dates and pattern extraction, as pandas computes them *)

Digits == <<"0","1","2","3","4","5","6","7","8","9">>
IsDigit(c) == \E i \in 1..Len(Digits) : Digits[i] = c
DigitValue(c) == (CHOOSE i \in 1..Len(Digits) : Digits[i] = c) - 1

RECURSIVE DigitsValue(_)
DigitsValue(s) ==
    IF s = <<>> THEN 0
    ELSE 10 * DigitsValue(SubSeq(s, 1, Len(s) - 1)) + DigitValue(s[Len(s)])

RECURSIVE Pow10(_)
Pow10(n) == IF n = 0 THEN 1 ELSE 10 * Pow10(n - 1)

Abs(x) == IF x < 0 THEN -x ELSE x

\* A decimal number m / 10^e; NaN stands for float('nan') and for a NULL of a
\* NUMERIC column.
Number(m, e) == [m |-> m, e |-> e]
NaN == [m |-> 0, e |-> -1]
Zero == Number(0, 0)

\* .str.replace(r'[$,]', '', regex=True)
KeepCurrency(s) == s
StripCurrency(s) == SelectSeq(s, LAMBDA c : c \notin {"$", ","})

\* pd.to_numeric(text, errors='coerce'): a decimal literal, with an optional sign,
\* becomes its value, every other text NaN.
ToNumeric(s) ==
    LET signed == Len(s) > 0 /\ s[1] \in {"-", "+"}
        body == IF signed THEN SubSeq(s, 2, Len(s)) ELSE s
        dots == {i \in 1..Len(body) : body[i] = "."}
        digits == SelectSeq(body, IsDigit)
        ok == /\ Cardinality(dots) <= 1
              /\ Len(digits) >= 1
              /\ Len(digits) + Cardinality(dots) = Len(body)
        e == IF dots = {} THEN 0 ELSE Len(body) - (CHOOSE i \in dots : TRUE)
        m == DigitsValue(digits)
    IN  IF ok THEN Number(IF signed /\ s[1] = "-" THEN -m ELSE m, e) ELSE NaN

\* .fillna(0)
FillNa0(x) == IF x = NaN THEN Zero ELSE x

\* The value as a NUMERIC(10, 2) column holds it: rounded to two decimals.
Numeric2(x) ==
    IF x = NaN THEN NaN
    ELSE IF x.e <= 2 THEN Number(x.m * Pow10(2 - x.e), 2)
    ELSE LET q == (Abs(x.m) + 5 * Pow10(x.e - 3)) \div Pow10(x.e - 2)
         IN  Number(IF x.m < 0 THEN -q ELSE q, 2)

\* "numeric field overflow": more than eight digits before the decimal point.
NumericOverflow(x) == x # NaN /\ Abs(x.m) \div Pow10(x.e) >= Pow10(8)

\* A calendar date; NaT stands for pd.NaT and for a NULL of a DATE column.
Date(y, m, d) == [y |-> y, m |-> m, d |-> d]
NaT == [y |-> 0, m |-> 0, d |-> 0]

IsLeap(y) == y % 4 = 0 /\ (y % 100 # 0 \/ y % 400 = 0)
DaysIn(y, m) ==
    IF m = 2 THEN (IF IsLeap(y) THEN 29 ELSE 28)
    ELSE IF m \in {4, 6, 9, 11} THEN 30 ELSE 31

\* A date that datetime64[ns] can hold.
InBounds(dt) == dt.y >= 1678 /\ dt.y <= 2261

\* pd.to_datetime(text, errors='coerce') for the text of a cell: an ISO date
\* 'YYYY-MM-DD' that exists in the calendar becomes that date, a text that is no
\* date (empty, words, a day the month does not have) NaT.
ToDatetime(s) ==
    IF s = NULL \/ Len(s) # 10 THEN NaT
    ELSE IF s[5] # "-" \/ s[8] # "-" \/ \E i \in {1, 2, 3, 4, 6, 7, 9, 10} : ~IsDigit(s[i]) THEN NaT
    ELSE LET y == DigitsValue(SubSeq(s, 1, 4))
             m == DigitsValue(SubSeq(s, 6, 7))
             d == DigitsValue(SubSeq(s, 9, 10))
         IN  IF m \in 1..12 /\ d >= 1 /\ d <= DaysIn(y, m) /\ InBounds(Date(y, m, d))
             THEN Date(y, m, d) ELSE NaT

\* pd.to_datetime(value, errors='coerce') for a value read from a DATE column.
ToDatetimeOfDate(dt) == IF dt # NaT /\ InBounds(dt) THEN dt ELSE NaT

DateOrdinal(dt) == dt.y * 10000 + dt.m * 100 + dt.d

\* a <= b for two dates
DateLE(a, b) == DateOrdinal(a) <= DateOrdinal(b)

\* Series.str.extract(r'(t1|t2|...)', flags=re.IGNORECASE): the text of the leftmost
\* match as the value spells it (at one position, the first alternative that
\* matches); NaN for a null value and for a value without a match.
MatchAt(terms, s, i, k) ==
    /\ i + Len(terms[k]) - 1 <= Len(s)
    /\ StrLower(SubSeq(s, i, i + Len(terms[k]) - 1)) = StrLower(terms[k])

StrExtract(terms, s) ==
    IF s = NULL THEN NULL
    ELSE LET hits == {i \in 1..Len(s) : \E k \in DOMAIN terms : MatchAt(terms, s, i, k)}
         IN  IF hits = {} THEN NULL
             ELSE LET i == CHOOSE h \in hits : \A g \in hits : h <= g
                      ks == {k \in DOMAIN terms : MatchAt(terms, s, i, k)}
                      k == CHOOSE h \in ks : \A g \in ks : h <= g
                  IN  SubSeq(s, i, i + Len(terms[k]) - 1)

----------------------------------------------------------------------------
(* The synchronization script: pure parts *)

Slots == 1..MaxRequests

WEBHOOK_SECRET_KEY == "a_secret_key"
Keys == {WEBHOOK_SECRET_KEY, "wrong_key"}

\* Rows of the sheet, restricted to the columns email and agent.
SourceRowValues ==
    { [email |-> <<"a","@","x">>, agent |-> <<"A">>],
      [email |-> <<>>,            agent |-> <<"B">>],
      [email |-> <<" ">>,         agent |-> <<>>] }

Sheets == UNION {[1..n -> SourceRowValues] : n \in 0..MaxRows}

SourceFailures == {"SpreadsheetNotFound", "WorksheetNotFound", "FetchError"}
ClientFailures == {"ImportError", "ServiceAccountFile", "ClientInit"}

NoSource == [kind |-> "none", rows |-> <<>>]
Failed(k) == [kind |-> k, rows |-> <<>>]
Fetched(s) == [kind |-> "rows", rows |-> s]

SourceOutcomes == {Fetched(s) : s \in Sheets} \cup {Failed(k) : k \in SourceFailures}

\* df['email'].notnull() & (df['email'] != '')
EmailAccepted(e) == e # NULL /\ e # <<>>

FilterRows(rows) == SelectSeq(rows, LAMBDA r : EmailAccepted(r.email))

\* The data frame fetch_data_from_gsheets returns: empty on every exception (a sheet
\* with no records has no 'email' column, which raises inside the try), else the
\* rows whose email passes the filter, in sheet order.
fetch_data_from_gsheets(o) ==
    IF o.kind # "rows" THEN <<>>
    ELSE IF o.rows = <<>> THEN <<>>
    ELSE FilterRows(o.rows)

\* if df_sheets.empty: exit()
DfEmptyNever(df) == FALSE
DfEmpty(df) == Len(df) = 0

\* One value of processed_row: NaN and blank strings become None.
ProcessedValue(v) ==
    IF v = NULL THEN NULL
    ELSE IF StrStrip(v) = <<>> THEN NULL
    ELSE v

ProcessedRow(r) == [email |-> ProcessedValue(r.email), agent |-> ProcessedValue(r.agent)]

data_to_insert(df) == [i \in 1..Len(df) |-> ProcessedRow(df[i])]

\* The table after TRUNCATE has committed.
TruncateAppend(t) == t
Truncated(t) == <<>>

\* The table after the batch of a transaction has committed.
CommittedInsert(t, batch) == t \o batch

----------------------------------------------------------------------------
(* Initial state *)

\* The table before the first modelled pass: missing, or left by an earlier
\* complete pass over a one-row sheet.
EarlierTables ==
    { data_to_insert(fetch_data_from_gsheets(Fetched(<<r>>))) : r \in SourceRowValues } \ {<<>>}

NotLoaded == [status |-> <<"?">>, sales_status |-> <<"?">>]
NoRead == [rows |-> <<>>, ok |-> FALSE]
NoCell == [status |-> NULL, sales_status |-> NULL]

\* The dashboard before its first run.
All == <<"A","l","l">>
NotShown == [shown |-> FALSE]
NoFrame == [outcome |-> "none", rows |-> <<>>]
NoCriteria ==
    [agent_filter |-> All, country_filter |-> All, status_filter |-> All,
     start_date |-> NaT, end_date |-> NaT]
NotPicked == [bound |-> "none", date |-> NaT, start_date |-> NaT, end_date |-> NaT]
NothingShown ==
    [overall |-> NotShown, agent_stats |-> NotShown, individual_agent |-> NotShown,
     country_stats |-> NotShown, report |-> NotShown]

ReportIdle ==
    /\ sheet = <<>>
    /\ today = NaT
    /\ current_user_df = NoFrame
    /\ criteria = NoCriteria
    /\ filtered_df = <<>>
    /\ shown = NothingShown
    /\ notices = {}
    /\ picked = NotPicked

SyncInit ==
    /\ hook = [p \in Slots |-> "idle"]
    /\ header = [p \in Slots |-> "none"]
    /\ pc = [p \in Slots |-> "none"]
    /\ rc = [p \in Slots |-> -1]
    /\ src = [p \in Slots |-> NoSource]
    /\ txn = [p \in Slots |-> <<>>]
    /\ ops = [p \in Slots |-> {}]
    /\ fault = [p \in Slots |-> "none"]
    /\ prior = [p \in Slots |-> <<>>]
    /\ rerun = [p \in Slots |-> FALSE]
    /\ prevFault = [p \in Slots |-> "none"]
    /\ \/ tableExists = FALSE /\ table = <<>>
       \/ tableExists = TRUE /\ table \in EarlierTables
    /\ rd = NoRead

Init ==
    /\ SyncInit
    /\ sheetCell = NoCell
    /\ dbCell = NoCell
    /\ canon = NotLoaded
    /\ loadStage = "sheet"
    /\ ReportIdle

----------------------------------------------------------------------------
(* webhook_server.py: sync_sheets *)

Waiting(p) == hook[p] = "waiting"
Running == {p \in Slots : pc[p] \notin {"none", "exited"}}

\* The slot a new request takes: the lowest one with no request in progress.
FreeSlot(p) == ~Waiting(p) /\ \A q \in Slots : q < p => Waiting(q)

passVars == <<pc, rc, src, txn, ops, fault, prior, rerun, prevFault>>

\* X-Secret-Key differs from the secret: 401, nothing is launched.
Unauthorized(p, key) ==
    /\ FreeSlot(p)
    /\ key # WEBHOOK_SECRET_KEY
    /\ hook' = [hook EXCEPT ![p] = "r401"]
    /\ header' = [header EXCEPT ![p] = key]
    /\ UNCHANGED <<passVars, tableExists, table, rd, loadVars, reportVars>>

\* The script is not beside the server: 500, nothing is launched.
ScriptNotFound(p, key) ==
    /\ FreeSlot(p)
    /\ key = WEBHOOK_SECRET_KEY
    /\ hook' = [hook EXCEPT ![p] = "r500"]
    /\ header' = [header EXCEPT ![p] = key]
    /\ UNCHANGED <<passVars, tableExists, table, rd, loadVars, reportVars>>

\* subprocess.run(['python3', sync_script_path]): the handler blocks until the script exits.
Launch(p, key) ==
    /\ FreeSlot(p)
    /\ key = WEBHOOK_SECRET_KEY
    /\ hook' = [hook EXCEPT ![p] = "waiting"]
    /\ header' = [header EXCEPT ![p] = key]
    /\ pc' = [pc EXCEPT ![p] = "start"]
    /\ rc' = [rc EXCEPT ![p] = -1]
    /\ txn' = [txn EXCEPT ![p] = <<>>]
    /\ ops' = [ops EXCEPT ![p] = {}]
    /\ prevFault' = [prevFault EXCEPT ![p] = fault[p]]
    /\ fault' = [fault EXCEPT ![p] = "none"]
    /\ prior' = [prior EXCEPT ![p] = table]
    /\ rerun' = [rerun EXCEPT ![p] = FALSE]
    /\ UNCHANGED <<src, tableExists, table, rd, loadVars, reportVars>>

\* result.returncode == 0 ? 200 : 500
RespondAlways200(p) ==
    /\ Waiting(p)
    /\ pc[p] = "exited"
    /\ hook' = [hook EXCEPT ![p] = "r200"]
    /\ UNCHANGED <<header, passVars, tableExists, table, rd, loadVars, reportVars>>
Respond(p) ==
    /\ Waiting(p)
    /\ pc[p] = "exited"
    /\ hook' = [hook EXCEPT ![p] = IF rc[p] = 0 THEN "r200" ELSE "r500"]
    /\ UNCHANGED <<header, passVars, tableExists, table, rd, loadVars, reportVars>>

----------------------------------------------------------------------------
(* google_sheets_to_postgres_sync.py: the script, step by step *)

\* The pass has learnt what its source is; rerun tells whether the slot's previous
\* pass had learnt the same.
SetSource(p, o) ==
    /\ src' = [src EXCEPT ![p] = o]
    /\ rerun' = [rerun EXCEPT ![p] = (src[p] = o)]

\* exit(): the interpreter ends with status 0.
Exit0(p) ==
    /\ pc' = [pc EXCEPT ![p] = "exited"]
    /\ rc' = [rc EXCEPT ![p] = 0]

\* An import or load_dotenv raises: traceback, status 1.
ImportFail(p) ==
    /\ pc[p] = "start"
    /\ SetSource(p, Failed("ImportError"))
    /\ pc' = [pc EXCEPT ![p] = "exited"]
    /\ rc' = [rc EXCEPT ![p] = 1]
    /\ UNCHANGED <<hook, header, txn, ops, fault, prior, prevFault, tableExists, table, rd, loadVars, reportVars>>

\* Module level: read the service-account file, exit() when it is missing or malformed.
LoadServiceAccount(p, ok) ==
    /\ pc[p] = "start"
    /\ IF ok
         THEN pc' = [pc EXCEPT ![p] = "client"] /\ UNCHANGED <<rc, src, rerun>>
         ELSE SetSource(p, Failed("ServiceAccountFile")) /\ Exit0(p)
    /\ UNCHANGED <<hook, header, txn, ops, fault, prior, prevFault, tableExists, table, rd, loadVars, reportVars>>

\* gc_client = get_gspread_client(); if gc_client is None: exit()
GetClient(p, ok) ==
    /\ pc[p] = "client"
    /\ IF ok
         THEN pc' = [pc EXCEPT ![p] = "fetch"] /\ UNCHANGED <<rc, src, rerun>>
         ELSE SetSource(p, Failed("ClientInit")) /\ Exit0(p)
    /\ UNCHANGED <<hook, header, txn, ops, fault, prior, prevFault, tableExists, table, rd, loadVars, reportVars>>

\* df_sheets = fetch_data_from_gsheets(...); if df_sheets.empty: exit()
Fetch(p, o) ==
    /\ pc[p] = "fetch"
    /\ SetSource(p, o)
    /\ IF DfEmpty(fetch_data_from_gsheets(o))
         THEN Exit0(p)
         ELSE pc' = [pc EXCEPT ![p] = "connect"] /\ UNCHANGED rc
    /\ UNCHANGED <<hook, header, txn, ops, fault, prior, prevFault, tableExists, table, rd, loadVars, reportVars>>

df_sheets(p) == fetch_data_from_gsheets(src[p])

\* except psycopg2.Error: conn.rollback(); the function returns normally.
StoreFails(p, step) ==
    /\ fault' = [fault EXCEPT ![p] = step]
    /\ txn' = [txn EXCEPT ![p] = <<>>]
    /\ pc' = [pc EXCEPT ![p] = "finish"]

\* psycopg2.connect(...)
Connect(p, ok) ==
    /\ pc[p] = "connect"
    /\ IF ok
         THEN pc' = [pc EXCEPT ![p] = "create"] /\ UNCHANGED <<fault, txn>>
         ELSE StoreFails(p, "connect")
    /\ UNCHANGED <<hook, header, rc, src, ops, prior, rerun, prevFault, tableExists, table, rd, loadVars, reportVars>>

\* CREATE TABLE IF NOT EXISTS ...; conn.commit()
CreateTableThenInsert(p, ok) ==
    /\ pc[p] = "create"
    /\ IF ok
         THEN /\ tableExists' = TRUE
              /\ ops' = [ops EXCEPT ![p] = @ \cup {"CREATE"}]
              /\ pc' = [pc EXCEPT ![p] = "insert"]
              /\ UNCHANGED <<fault, txn>>
         ELSE StoreFails(p, "create") /\ UNCHANGED <<tableExists, ops>>
    /\ UNCHANGED <<hook, header, rc, src, prior, rerun, prevFault, table, rd, loadVars, reportVars>>
CreateTable(p, ok) ==
    /\ pc[p] = "create"
    /\ IF ok
         THEN /\ tableExists' = TRUE
              /\ ops' = [ops EXCEPT ![p] = @ \cup {"CREATE"}]
              /\ pc' = [pc EXCEPT ![p] = "truncate"]
              /\ UNCHANGED <<fault, txn>>
         ELSE StoreFails(p, "create") /\ UNCHANGED <<tableExists, ops>>
    /\ UNCHANGED <<hook, header, rc, src, prior, rerun, prevFault, table, rd, loadVars, reportVars>>

\* TRUNCATE TABLE ... RESTART IDENTITY CASCADE; conn.commit()
Truncate(p, ok) ==
    /\ pc[p] = "truncate"
    /\ IF ok
         THEN /\ table' = Truncated(table)
              /\ ops' = [ops EXCEPT ![p] = @ \cup {"TRUNCATE"}]
              /\ pc' = [pc EXCEPT ![p] = "insert"]
              /\ UNCHANGED <<fault, txn>>
         ELSE StoreFails(p, "truncate") /\ UNCHANGED <<table, ops>>
    /\ UNCHANGED <<hook, header, rc, src, prior, rerun, prevFault, tableExists, rd, loadVars, reportVars>>

\* execute_batch: one INSERT of the batch, inside the open transaction.
InsertRowAutocommit(p, ok) ==
    /\ pc[p] = "insert"
    /\ Len(txn[p]) < Len(df_sheets(p))
    /\ IF ok
         THEN /\ txn' = [txn EXCEPT ![p] = Append(@, data_to_insert(df_sheets(p))[Len(@) + 1])]
              /\ table' = Append(table, data_to_insert(df_sheets(p))[Len(txn[p]) + 1])
              /\ ops' = [ops EXCEPT ![p] = @ \cup {"INSERT"}]
              /\ UNCHANGED <<fault, pc>>
         ELSE StoreFails(p, "insert") /\ UNCHANGED <<ops, table>>
    /\ UNCHANGED <<hook, header, rc, src, prior, rerun, prevFault, tableExists, rd, loadVars, reportVars>>
InsertRow(p, ok) ==
    /\ pc[p] = "insert"
    /\ Len(txn[p]) < Len(df_sheets(p))
    /\ IF ok
         THEN /\ txn' = [txn EXCEPT ![p] = Append(@, data_to_insert(df_sheets(p))[Len(@) + 1])]
              /\ ops' = [ops EXCEPT ![p] = @ \cup {"INSERT"}]
              /\ UNCHANGED <<fault, pc>>
         ELSE StoreFails(p, "insert") /\ UNCHANGED ops
    /\ UNCHANGED <<hook, header, rc, src, prior, rerun, prevFault, tableExists, table, rd, loadVars, reportVars>>

\* conn.commit() after the batch
CommitInsert(p, ok) ==
    /\ pc[p] = "insert"
    /\ Len(txn[p]) = Len(df_sheets(p))
    /\ IF ok
         THEN /\ table' = CommittedInsert(table, txn[p])
              /\ txn' = [txn EXCEPT ![p] = <<>>]
              /\ pc' = [pc EXCEPT ![p] = "finish"]
              /\ UNCHANGED fault
         ELSE StoreFails(p, "commit") /\ UNCHANGED table
    /\ UNCHANGED <<hook, header, rc, src, ops, prior, rerun, prevFault, tableExists, rd, loadVars, reportVars>>

\* finally: close; back in __main__: print "Sync finished."; the script ends, status 0.
Finish(p) ==
    /\ pc[p] = "finish"
    /\ Exit0(p)
    /\ UNCHANGED <<hook, header, src, txn, ops, fault, prior, rerun, prevFault, tableExists, table, rd, loadVars, reportVars>>

----------------------------------------------------------------------------
(* app_v1.py: the loader's read of sales_data *)

\* The rows a pass in progress is about to leave in the table.
NewRows(p) ==
    IF pc[p] \in {"start", "client", "fetch"} THEN prior[p] ELSE data_to_insert(df_sheets(p))

\* SELECT ... FROM sales_data; a missing table raises psycopg2.Error and the
\* loader returns an empty frame.
ReadTable ==
    /\ rd' = [rows |-> IF tableExists THEN table ELSE <<>>, ok |-> tableExists]
    /\ rd' # rd
    /\ UNCHANGED <<syncVars, loadVars, reportVars>>

----------------------------------------------------------------------------
(* app_v1.py: load_full_sales_data_from_db, the vocabulary mapping *)

status_mapping ==
       (<<"a","n","s","w","e","r","e","d"," ","c","a","l","l">> :> <<"A","n","s","w","e","r","e","d">>)
    @@ (<<"a","n","s","w","e","r","e","d">> :> <<"A","n","s","w","e","r","e","d">>)
    @@ (<<"n","o","t"," ","a","n","s","w","e","r","e","d">> :> <<"N","o","t"," ","a","n","s","w","e","r","e","d">>)
    @@ (<<"i","n","v","a","l","i","d"," ","n","u","m","b","e","r">> :> <<"I","n","v","a","l","i","d"," ","n","u","m","b","e","r">>)
    @@ (<<"s","i","l","e","n","t"," ","c","a","l","l","/","v","o","i","c","e","m","a","i","l">> :> <<"V","o","i","c","e","m","a","i","l">>)
    @@ (<<"v","o","i","c","e","m","a","i","l">> :> <<"V","o","i","c","e","m","a","i","l">>)

\* df_raw['status'].replace({...}, inplace=True)
status_replace ==
       (<<"I","n","v","a","l","i","d"," ","N","u","m","b","e","r">> :> <<"I","n","v","a","l","i","d"," ","n","u","m","b","e","r">>)
    @@ (<<"N","o","t"," ","A","n","s","w","e","r","e","d">> :> <<"N","o","t"," ","a","n","s","w","e","r","e","d">>)

sales_status_mapping ==
       (<<"s","o","l","d">> :> <<"C","o","n","v","e","r","t","e","d">>)
    @@ (<<"d","e","a","l"," ","w","o","n">> :> <<"C","o","n","v","e","r","t","e","d">>)
    @@ (<<"d","e","a","l"," ","c","o","m","p","l","e","t","e">> :> <<"C","o","n","v","e","r","t","e","d">>)
    @@ (<<"c","o","n","v","e","r","t","e","d">> :> <<"C","o","n","v","e","r","t","e","d">>)
    @@ (<<"l","o","s","t">> :> <<"N","o","t"," ","i","n","t","e","r","e","s","t","e","d">>)
    @@ (<<"n","o"," ","i","n","t","e","r","e","s","t">> :> <<"N","o","t"," ","i","n","t","e","r","e","s","t","e","d">>)
    @@ (<<"n","o","t"," ","i","n","t","e","r","e","s","t","e","d"," ","(","n",")">> :> <<"N","o","t"," ","i","n","t","e","r","e","s","t","e","d">>)
    @@ (<<"n","o","t"," ","i","n","t","e","r","e","s","t","e","d">> :> <<"N","o","t"," ","i","n","t","e","r","e","s","t","e","d">>)
    @@ (<<"f","o","l","l","o","w"," ","u","p">> :> <<"F","o","l","l","o","w"," ","u","p">>)
    @@ (<<"f">> :> <<"F","o","l","l","o","w"," ","u","p">>)

\* .astype(str).str.strip().str.lower()
NormaliseKeyUnstripped(v) == StrLower(AsTypeStr(v))
NormaliseKey(v) == StrLower(StrStrip(AsTypeStr(v)))

\* Series.map(d): a value that is no key of d becomes NaN
MapValue(d, k) == IF k \in DOMAIN d THEN d[k] ELSE NULL

\* .apply(lambda x: x.title() if pd.notna(x) else x)
TitleIfNotNull(v) == IF v # NULL THEN StrTitle(v) ELSE v

\* Series.replace(d): a value that is a key of d is replaced, the others stay
ReplaceValue(d, v) == IF v \in DOMAIN d THEN d[v] ELSE v

\* The loader's 'status' column
LoadStatus(v) ==
    ReplaceValue(status_replace, TitleIfNotNull(MapValue(status_mapping, NormaliseKey(v))))

\* The loader's 'sales_status' column
LoadSalesStatus(v) ==
    TitleIfNotNull(MapValue(sales_status_mapping, NormaliseKey(v)))

\* Raw sheet values: samples in several casings, with spaces around them.
Spaces(n) == [i \in 1..n |-> " "]
Padded(s, n) == Spaces(n) \o s \o Spaces(n)
StrAlternate(s) == [i \in 1..Len(s) |-> IF i % 2 = 0 THEN UpperChar(s[i]) ELSE LowerChar(s[i])]
Casings(s) == {s, StrUpper(s), StrTitle(s), StrAlternate(s)}
RawVariants(s) == {Padded(c, n) : c \in Casings(s), n \in 0..MaxPad}

UnmappedSamples == {<<>>, <<"m","a","y","b","e">>, <<"s","o","l","d"," ","o","u","t">>, <<"n","a","n">>}
StatusSamples == {<<"a","n","s","w","e","r","e","d"," ","c","a","l","l">>, <<"n","o","t"," ","a","n","s","w","e","r","e","d">>, <<"i","n","v","a","l","i","d"," ","n","u","m","b","e","r">>, <<"s","i","l","e","n","t"," ","c","a","l","l","/","v","o","i","c","e","m","a","i","l">>} \cup UnmappedSamples
SalesStatusSamples == DOMAIN sales_status_mapping \cup UnmappedSamples

RawStatusValues == UNION {RawVariants(s) : s \in StatusSamples}
RawSalesStatusValues == UNION {RawVariants(s) : s \in SalesStatusSamples}

\* The pipeline of one row: a sheet row is drawn, the sync script stores it, the
\* loader reads it back.
LoadInit ==
    /\ SyncInit
    /\ tableExists = FALSE
    /\ sheetCell \in [status : RawStatusValues, sales_status : RawSalesStatusValues]
    /\ dbCell = NoCell
    /\ canon = NotLoaded
    /\ loadStage = "sheet"
    /\ ReportIdle

\* insert_data_to_postgres: the values of processed_row
StoreCell ==
    /\ loadStage = "sheet"
    /\ dbCell' = [status |-> ProcessedValue(sheetCell.status),
                  sales_status |-> ProcessedValue(sheetCell.sales_status)]
    /\ loadStage' = "stored"
    /\ UNCHANGED <<syncVars, rd, sheetCell, canon, reportVars>>

\* load_full_sales_data_from_db: the status and sales_status columns
LoadCell ==
    /\ loadStage = "stored"
    /\ canon' = [status |-> LoadStatus(dbCell.status),
                 sales_status |-> LoadSalesStatus(dbCell.sales_status)]
    /\ loadStage' = "loaded"
    /\ UNCHANGED <<syncVars, rd, sheetCell, dbCell, reportVars>>

----------------------------------------------------------------------------
(* The fields sales_amount, first_call_date and tags of one row: from the sheet,
   through the synchronization script, to the loader *)

\* fetch_data_from_gsheets: the sales_amount column (0.0 when the sheet has none)
FetchedAmount(v) ==
    IF v = NULL THEN Zero
    ELSE FillNa0(ToNumeric(StripCurrency(AsTypeStr(v))))

\* fetch_data_from_gsheets: a date column, pd.to_datetime(...).dt.date (NaT when
\* the sheet has none)
FetchedDate(v) == ToDatetime(v)

\* fetch_data_from_gsheets: a text column ('' when the sheet has none)
FetchedText(v) == IF v = NULL THEN <<>> ELSE v

\* load_full_sales_data_from_db: date_called and is_initial_call
date_called(first_call_date) == ToDatetimeOfDate(first_call_date)
is_initial_call_always(dc) == 1
is_initial_call(dc) == IF dc # NaT THEN 1 ELSE 0

\* load_full_sales_data_from_db: pd.to_numeric(..., errors='coerce').fillna(0)
LoadedAmount(v) == FillNa0(v)

issue_catalog ==
    << <<"L","a","n","g","u","a","g","e"," ","B","a","r","r","i","e","r","s">>,
       <<"K","Y","C"," ","I","s","s","u","e","s"," ","&"," ","C","o","m","p","l","a","i","n","t","s">>,
       <<"B","o","n","u","s"," ","o","r"," ","P","r","o","m","o","t","i","o","n","s">>,
       <<"N","e","t","w","o","r","k",","," ","I","n","a","u","d","i","b","l","e"," ","C","o","n","v","e","r","s","a","t","i","o","n">>,
       <<"I","n","t","e","r","e","s","t","e","d">>,
       <<"S","p","r","e","a","d",","," ","L","e","v","e","r","a","g","e"," ","&"," ","P","l","a","t","f","o","r","m"," ","C","o","n","c","e","r","n","s">>,
       <<"F","u","t","u","r","e"," ","D","e","p","o","s","i","t">>,
       <<"W","i","t","h","d","r","a","w","a","l"," ","c","o","m","p","l","a","i","n","t">>,
       <<"W","r","o","n","g"," ","n","u","m","b","e","r"," ","c","l","a","i","m">>,
       <<"B","u","s","y">>,
       <<"G","e","o","g","r","a","p","h","i","c","a","l"," ","p","e","r","m","i","s","s","i","o","n"," ","n","e","e","d","e","d">>,
       <<"V","O","I","P"," ","r","e","s","t","r","i","c","t","e","d"," ","c","o","u","n","t","r","y">>,
       <<"P","a","y","m","e","n","t"," ","m","e","t","h","o","d"," ","i","s","s","u","e">>,
       <<"P","l","a","t","f","o","r","m"," ","I","s","s","u","e">>,
       <<"A","n","s","w","e","r","e","d"," ","b","y"," ","A","n","o","t","h","e","r"," ","P","e","r","s","o","n">>,
       <<"E","x","p","l","o","r","e","r">>,
       <<"P","a","r","t","n","e","r","s"," ","P","r","o","g","r","a","m">> >>

NA == <<"N","/","A">>

\* load_full_sales_data_from_db: issues, the catalog pattern extracted from tags,
\* 'N/A' where nothing was extracted
issues(tags) ==
    LET found == StrExtract(issue_catalog, tags)
    IN  IF found = NULL THEN NA ELSE found

\* Raw cells of the sheet; NULL stands for a column the sheet does not have.
RawAmounts ==
    { NULL,
      <<"1","0","0","0">>,
      <<"$","1",",","0","0","0">>,
      <<"-","5","0">>,
      <<"-","$","2",".","5","0">>,
      <<>>,
      <<"a","b","c">>,
      <<"1","2",".","5">>,
      <<"0">>,
      <<"1","9",".","9","9","9">>,
      <<"1","0","0","0","0","0","0","0","0">>,
      <<"$">> }

RawDates ==
    { NULL,
      <<"2","0","2","4","-","0","1","-","0","1">>,
      <<"2","0","2","4","-","0","2","-","2","9">>,
      <<"2","0","2","3","-","0","2","-","2","9">>,
      <<>>,
      <<"t","o","m","o","r","r","o","w">>,
      <<"3","0","0","0","-","0","1","-","0","1">>,
      <<"2","0","2","4","-","1","3","-","0","1">> }

RawTags ==
    { NULL,
      <<>>,
      <<"B","u","s","y">>,
      <<"b","u","s","y">>,
      <<"N","o","t"," ","I","n","t","e","r","e","s","t","e","d">>,
      <<"B","u","s","y",","," ","L","a","n","g","u","a","g","e"," ","B","a","r","r","i","e","r","s">>,
      <<"c","a","l","l"," ","l","a","t","e","r">>,
      <<"P","L","A","T","F","O","R","M"," ","I","S","S","U","E">>,
      <<"E","x","p","l","o","r","e","r">>,
      <<"P","a","r","t","n","e","r","s"," ","p","r","o","g","r","a","m">> }

NoFields == [sales_amount |-> NULL, first_call_date |-> NULL, tags |-> NULL]

FieldsInit ==
    /\ SyncInit
    /\ tableExists = FALSE
    /\ sheetCell \in [sales_amount : RawAmounts, first_call_date : RawDates, tags : RawTags]
    /\ dbCell = NoFields
    /\ canon = NoFields
    /\ loadStage = "sheet"
    /\ ReportIdle

\* The row as fetch_data_from_gsheets builds it.
FetchedFields(c) ==
    [sales_amount |-> FetchedAmount(c.sales_amount),
     first_call_date |-> FetchedDate(c.first_call_date),
     tags |-> FetchedText(c.tags)]

\* The row as sales_data holds it: blank text and NaT become NULL, the amount is
\* held with two decimals.
InsertedFields(f) ==
    [sales_amount |-> Numeric2(f.sales_amount),
     first_call_date |-> f.first_call_date,
     tags |-> ProcessedValue(f.tags)]

\* A synchronization pass over the row: the insert raises when the amount does not
\* fit the column, and the row is not stored.
SyncFields ==
    /\ loadStage = "sheet"
    /\ LET f == FetchedFields(sheetCell)
       IN  IF NumericOverflow(f.sales_amount)
           THEN dbCell' = dbCell /\ loadStage' = "failed"
           ELSE dbCell' = InsertedFields(f) /\ loadStage' = "stored"
    /\ UNCHANGED <<syncVars, rd, sheetCell, canon, reportVars>>

\* load_full_sales_data_from_db: the columns derived from the three fields
LoadFields ==
    /\ loadStage = "stored"
    /\ canon' = [sales_amount |-> LoadedAmount(dbCell.sales_amount),
                 date_called |-> date_called(dbCell.first_call_date),
                 is_initial_call |-> is_initial_call(date_called(dbCell.first_call_date)),
                 issues |-> issues(dbCell.tags)]
    /\ loadStage' = "loaded"
    /\ UNCHANGED <<syncVars, rd, sheetCell, dbCell, reportVars>>

----------------------------------------------------------------------------
(* Whole rows: from the sheet to the canonical records of the dashboard *)

\* fetch_data_from_gsheets: one row of the frame, before the email filter
FetchedRow(r) ==
    [agent |-> FetchedText(r.agent),
     email |-> FetchedText(r.email),
     country_name |-> FetchedText(r.country_name),
     status |-> FetchedText(r.status),
     sales_status |-> FetchedText(r.sales_status),
     tags |-> FetchedText(r.tags),
     sales_amount |-> FetchedAmount(r.sales_amount),
     first_call_date |-> FetchedDate(r.first_call_date),
     next_follow_up_date |-> FetchedDate(r.next_follow_up_date)]

\* fetch_data_from_gsheets over the rows of a sheet: a sheet without records has no
\* 'email' column, which raises inside the try and yields the empty frame.
df_reordered(rows) ==
    IF rows = <<>> THEN <<>>
    ELSE FilterRows([i \in 1..Len(rows) |-> FetchedRow(rows[i])])

\* insert_data_to_postgres: one tuple of data_to_insert as sales_data holds it
InsertedRow(f) ==
    [agent |-> ProcessedValue(f.agent),
     email |-> ProcessedValue(f.email),
     country_name |-> ProcessedValue(f.country_name),
     status |-> ProcessedValue(f.status),
     sales_status |-> ProcessedValue(f.sales_status),
     tags |-> ProcessedValue(f.tags),
     sales_amount |-> Numeric2(f.sales_amount),
     first_call_date |-> f.first_call_date,
     next_follow_up_date |-> f.next_follow_up_date]

call_outcome_catalog ==
    << <<"A","n","s","w","e","r","e","d">>,
       <<"N","o","t"," ","a","n","s","w","e","r","e","d">>,
       <<"I","n","v","a","l","i","d"," ","n","u","m","b","e","r">>,
       <<"V","o","i","c","e","m","a","i","l">> >>

SouthAsia == {<<"I","n","d","i","a">>, <<"P","a","k","i","s","t","a","n">>, <<"B","a","n","g","l","a","d","e","s","h">>}
LatinAmerica == {<<"B","r","a","z","i","l">>, <<"A","r","g","e","n","t","i","n","a">>, <<"C","o","l","o","m","b","i","a">>}
MiddleEast == {<<"I","r","a","q">>, <<"S","a","u","d","i"," ","A","r","a","b","i","a">>, <<"U","n","i","t","e","d"," ","A","r","a","b"," ","E","m","i","r","a","t","e","s">>}

\* np.where(country_name.isin([...]), ...)
country_group(c) ==
    IF c \in SouthAsia THEN <<"S","o","u","t","h"," ","A","s","i","a">>
    ELSE IF c \in LatinAmerica THEN <<"L","a","t","i","n"," ","A","m","e","r","i","c","a">>
    ELSE IF c \in MiddleEast THEN <<"M","i","d","d","l","e"," ","E","a","s","t">>
    ELSE <<"O","t","h","e","r">>

\* notna() & (next_follow_up_date <= ref), as 0 or 1
FollowUpDue(nfd, ref) == IF nfd # NaT /\ DateLE(nfd, ref) THEN 1 ELSE 0

\* load_full_sales_data_from_db: the record built from one stored row; src keeps
\* the stored row it was built from (history).
LoadRecord(row, now) ==
    [agent |-> row.agent,
     email |-> row.email,
     country_name |-> row.country_name,
     status |-> LoadStatus(row.status),
     sales_status |-> LoadSalesStatus(row.sales_status),
     sales_amount |-> LoadedAmount(row.sales_amount),
     date_called |-> date_called(row.first_call_date),
     is_initial_call |-> is_initial_call(date_called(row.first_call_date)),
     next_follow_up_date |-> ToDatetimeOfDate(row.next_follow_up_date),
     issues |-> issues(row.tags),
     call_outcome |-> StrExtract(call_outcome_catalog, LoadStatus(row.status)),
     country_group |-> country_group(row.country_name),
     total_follow_up_calls |-> FollowUpDue(ToDatetimeOfDate(row.next_follow_up_date), now),
     src |-> row]

\* df_raw['status'].str.extract(...) raises AttributeError ("Can only use .str
\* accessor with string values") when the column holds no text: .map() left NaN in
\* every row, and .apply() then made the column float64.  The loader catches
\* psycopg2.Error only.
StrAccessorRaises(rows) ==
    rows # <<>> /\ \A i \in DOMAIN rows : LoadStatus(rows[i].status) = NULL

\* load_full_sales_data_from_db: "failed" when the query raises psycopg2.Error and
\* the empty frame is returned, "raised" when the function raises, else "loaded".
load_full_sales_data_from_db(exists, rows, now) ==
    IF ~exists THEN [outcome |-> "failed", rows |-> <<>>]
    ELSE IF StrAccessorRaises(rows) THEN [outcome |-> "raised", rows |-> <<>>]
    ELSE [outcome |-> "loaded", rows |-> [i \in 1..Len(rows) |-> LoadRecord(rows[i], now)]]

----------------------------------------------------------------------------
(* app_v1.py: the sidebar filters and the metrics of the dashboard *)

Column(f, name) == {f[i][name] : i \in DOMAIN f}

\* ['All'] + sorted(df[name].dropna().unique().tolist())
FilterOptions(f, name) == {All} \cup (Column(f, name) \ {NULL})

DatesCalled(f) == {f[i].date_called : i \in DOMAIN f} \ {NaT}
Earliest(ds) == CHOOSE d \in ds : \A e \in ds : DateLE(d, e)
Latest(ds) == CHOOSE d \in ds : \A e \in ds : DateLE(e, d)

data_min_date(f) == IF DatesCalled(f) # {} THEN Earliest(DatesCalled(f)) ELSE Date(2023, 1, 1)
data_max_date(f, now) == IF DatesCalled(f) # {} THEN Latest(DatesCalled(f)) ELSE now

\* start_date <= d <= end_date, for a date_called that is not NaT
InRangeOpenEnd(d, s, e) == d # NaT /\ DateLE(s, d) /\ DateLE(d, e) /\ d # e
InRange(d, s, e) == d # NaT /\ DateLE(s, d) /\ DateLE(d, e)

FilterAgent(f, a) == IF a # All THEN SelectSeq(f, LAMBDA r : r.agent = a) ELSE f
FilterCountryFirst(f, c) ==
    IF c # All /\ \E i \in DOMAIN f : f[i].country_name = c
    THEN <<f[CHOOSE i \in DOMAIN f : f[i].country_name = c /\ \A j \in 1..(i - 1) : f[j].country_name # c]>>
    ELSE f
FilterCountry(f, c) == IF c # All THEN SelectSeq(f, LAMBDA r : r.country_name = c) ELSE f
FilterStatus(f, s) == IF s # All THEN SelectSeq(f, LAMBDA r : r.status = s) ELSE f
FilterDate(f, s, e) == SelectSeq(f, LAMBDA r : InRange(r.date_called, s, e))

\* filtered_df
Filtered(f, c) ==
    FilterDate(FilterStatus(FilterCountry(FilterAgent(f, c.agent_filter), c.country_filter),
                            c.status_filter),
               c.start_date, c.end_date)

\* not filtered_df.empty
NotEmptyAlways(f) == TRUE
NotEmpty(f) == Len(f) > 0

CountWhere(f, P(_)) == Cardinality({i \in DOMAIN f : P(f[i])})

RECURSIVE SumOf(_, _)
SumOf(f, name) == IF f = <<>> THEN 0 ELSE f[1][name] + SumOf(Tail(f), name)

\* (column == label).mean() * 100 over n rows of which k match: the number
\* 100 * k / n, kept as a fraction; a zero denominator is not-a-number.
Mean100(k, n) == [num |-> 100 * k, den |-> n]
ZeroRate == [num |-> 0, den |-> 1]

Answered == <<"A","n","s","w","e","r","e","d">>
FollowUp == <<"F","o","l","l","o","w"," ","u","p">>

IsAnswered(r) == r.status = Answered
IsFollowUp(r) == r.sales_status = FollowUp

AnsweredRate(g) == Mean100(CountWhere(g, IsAnswered), Len(g))
SalesFollowUpRate(g) == Mean100(CountWhere(g, IsFollowUp), Len(g))

\* The metrics row on top of every tab.
overall(f, end_date) ==
    IF NotEmpty(f)
    THEN [shown |-> TRUE,
          total_initial_calls |-> SumOf(f, "is_initial_call"),
          total_follow_up_calls_overall |->
              CountWhere(f, LAMBDA r : FollowUpDue(r.next_follow_up_date, end_date) = 1),
          answered_rate |-> AnsweredRate(f)]
    ELSE NotShown

\* One row of filtered_df.groupby(name).agg(...); members keeps the rows of the
\* group (history).
GroupStats(g) ==
    [members |-> g,
     Total_Initial_Calls |-> SumOf(g, "is_initial_call"),
     Total_Follow_Up_Calls |-> SumOf(g, "total_follow_up_calls"),
     Answered_Rate |-> AnsweredRate(g),
     Sales_Follow_Up_Rate |-> SalesFollowUpRate(g)]

\* groupby(name): one group per value of the column, null values left out
GroupBy(f, name) ==
    [v \in Column(f, name) \ {NULL} |-> SelectSeq(f, LAMBDA r : r[name] = v)]

Stats(f, name) == [v \in DOMAIN GroupBy(f, name) |-> GroupStats(GroupBy(f, name)[v])]

\* agent_stats, without the agents whose name is blank
agent_stats(f) ==
    IF NotEmpty(f)
    THEN [shown |-> TRUE,
          groups |-> [a \in {v \in DOMAIN Stats(f, "agent") : StrStrip(v) # <<>>} |-> Stats(f, "agent")[a]]]
    ELSE NotShown

\* The metrics of the agent picked under "Individual Agent Analysis".
agent_metrics(agent_df) ==
    [members |-> agent_df,
     total_follow_up_calls_agent |-> SumOf(agent_df, "total_follow_up_calls"),
     answered_rate |-> AnsweredRate(agent_df),
     sales_follow_up_rate |->
         IF SumOf(agent_df, "is_initial_call") > 0 THEN SalesFollowUpRate(agent_df) ELSE ZeroRate]

individual_agent(f) ==
    IF NotEmpty(f)
    THEN [shown |-> TRUE,
          agents |-> [a \in DOMAIN agent_stats(f).groups |-> agent_metrics(FilterAgent(f, a))]]
    ELSE NotShown

\* country_stats is computed whether filtered_df is empty or not
country_stats(f) == [shown |-> TRUE, groups |-> Stats(f, "country_name")]

\* The rows of report_df.
report(f) ==
    IF NotEmpty(f)
    THEN [shown |-> TRUE,
          total_follow_up_calls_report |-> SumOf(f, "total_follow_up_calls"),
          answered_rate_report |-> AnsweredRate(f)]
    ELSE NotShown

Dashboard(f, end_date) ==
    [overall |-> overall(f, end_date),
     agent_stats |-> agent_stats(f),
     individual_agent |-> individual_agent(f),
     country_stats |-> country_stats(f),
     report |-> report(f)]

----------------------------------------------------------------------------
(* app_v1.py: the frame the dashboard works on, its notices and its session state *)

LoadFailedNotice == "Failed to load data from PostgreSQL. Check console for errors or Streamlit secrets."
NoMetricsNotice == "No data available to display dashboard metrics based on current filters."
Traceback == "Traceback"

\* st.error(...) when the loader returned an empty frame
LoadNoticesAsFilter(loaded) == IF loaded.rows = <<>> THEN {NoMetricsNotice} ELSE {}
LoadNotices(loaded) == IF loaded.rows = <<>> THEN {LoadFailedNotice} ELSE {}

\* st.info(...) in place of the metrics when filtered_df is empty
FilterNotices(f) == IF NotEmpty(f) THEN {} ELSE {NoMetricsNotice}

\* str.capitalize()
StrCapitalize(s) == [i \in 1..Len(s) |-> IF i = 1 THEN UpperChar(s[i]) ELSE LowerChar(s[i])]

\* "Sample Data for fallback": the rows of the literal frame
sample_data ==
    <<
       [name |-> "Test User 1", agent |-> <<"A","g","e","n","t"," ","A">>,
        email |-> <<"t","e","s","t","1","@","e","x","a","m","p","l","e",".","c","o","m">>,
        country_name |-> <<"I","n","d","i","a">>, status |-> <<"A","n","s","w","e","r","e","d">>,
        sales_status |-> <<"F","o","l","l","o","w"," ","u","p">>, sales_amount |-> Number(1000, 0),
        first_call_date |-> <<"2","0","2","3","-","0","1","-","0","1">>,
        next_follow_up_date |-> <<"2","0","2","3","-","0","7","-","2","6">>,
        tags |-> <<"L","a","n","g","u","a","g","e"," ","B","a","r","r","i","e","r","s">>],
       [name |-> "Test User 2", agent |-> <<"A","g","e","n","t"," ","B">>,
        email |-> <<"t","e","s","t","2","@","e","x","a","m","p","l","e",".","c","o","m">>,
        country_name |-> <<"B","r","a","z","i","l">>, status |-> <<"N","o","t"," ","a","n","s","w","e","r","e","d">>,
        sales_status |-> <<"N","o","t"," ","i","n","t","e","r","e","s","t","e","d">>, sales_amount |-> Number(0, 0),
        first_call_date |-> <<"2","0","2","3","-","0","1","-","0","5">>,
        next_follow_up_date |-> <<"2","0","2","3","-","0","8","-","0","1">>,
        tags |-> <<"N","/","A">>],
       [name |-> "Test User 3", agent |-> <<"A","g","e","n","t"," ","A">>,
        email |-> <<"t","e","s","t","3","@","e","x","a","m","p","l","e",".","c","o","m">>,
        country_name |-> <<"P","a","k","i","s","t","a","n">>, status |-> <<"A","n","s","w","e","r","e","d">>,
        sales_status |-> <<"C","o","n","v","e","r","t","e","d">>, sales_amount |-> Number(500, 0),
        first_call_date |-> <<"2","0","2","3","-","0","1","-","1","0">>,
        next_follow_up_date |-> NULL,
        tags |-> <<"I","n","t","e","r","e","s","t","e","d">>],
       [name |-> "Test User 4", agent |-> <<"A","g","e","n","t"," ","C">>,
        email |-> <<"t","e","s","t","4","@","e","x","a","m","p","l","e",".","c","o","m">>,
        country_name |-> <<"I","r","a","q">>, status |-> <<"V","o","i","c","e","m","a","i","l">>,
        sales_status |-> <<"F","o","l","l","o","w"," ","u","p">>, sales_amount |-> Number(0, 0),
        first_call_date |-> <<"2","0","2","3","-","0","1","-","1","5">>,
        next_follow_up_date |-> <<"2","0","2","3","-","0","7","-","1","6">>,
        tags |-> <<"N","/","A">>],
       [name |-> "Test User 5", agent |-> <<"A","g","e","n","t"," ","B">>,
        email |-> <<"t","e","s","t","5","@","e","x","a","m","p","l","e",".","c","o","m">>,
        country_name |-> <<"I","n","d","i","a">>, status |-> <<"A","n","s","w","e","r","e","d">>,
        sales_status |-> <<"C","o","n","v","e","r","t","e","d">>, sales_amount |-> Number(750, 0),
        first_call_date |-> <<"2","0","2","3","-","0","1","-","2","0">>,
        next_follow_up_date |-> NULL,
        tags |-> <<"P","l","a","t","f","o","r","m"," ","I","s","s","u","e">>],
       [name |-> "Test User 6", agent |-> <<"A","g","e","n","t"," ","D">>,
        email |-> <<"t","e","s","t","6","@","e","x","a","m","p","l","e",".","c","o","m">>,
        country_name |-> <<"C","y","p","r","u","s">>, status |-> <<"A","n","s","w","e","r","e","d">>,
        sales_status |-> <<"C","o","n","v","e","r","t","e","d">>, sales_amount |-> Number(2000, 0),
        first_call_date |-> <<"2","0","2","3","-","0","1","-","2","5">>,
        next_follow_up_date |-> <<"2","0","2","3","-","0","7","-","2","6">>,
        tags |-> <<"N","/","A">>],
       [name |-> "Test User 7", agent |-> <<"A","g","e","n","t"," ","A">>,
        email |-> <<"t","e","s","t","7","@","e","x","a","m","p","l","e",".","c","o","m">>,
        country_name |-> <<"I","n","d","i","a">>, status |-> <<"A","n","s","w","e","r","e","d">>,
        sales_status |-> <<"F","o","l","l","o","w"," ","u","p">>, sales_amount |-> Number(300, 0),
        first_call_date |-> <<"2","0","2","3","-","0","1","-","2","8">>,
        next_follow_up_date |-> <<"2","0","2","3","-","0","8","-","0","1">>,
        tags |-> <<"I","n","t","e","r","e","s","t","e","d">>],
       [name |-> "Test User 8", agent |-> <<"A","g","e","n","t"," ","E">>,
        email |-> <<"t","e","s","t","8","@","e","x","a","m","p","l","e",".","c","o","m">>,
        country_name |-> <<"B","r","a","z","i","l">>, status |-> <<"A","n","s","w","e","r","e","d">>,
        sales_status |-> <<"C","o","n","v","e","r","t","e","d">>, sales_amount |-> Number(1200, 0),
        first_call_date |-> <<"2","0","2","3","-","0","2","-","0","1">>,
        next_follow_up_date |-> NULL,
        tags |-> <<"N","/","A">>],
       [name |-> "Test User 9", agent |-> <<"A","g","e","n","t"," ","F">>,
        email |-> <<"t","e","s","t","9","@","e","x","a","m","p","l","e",".","c","o","m">>,
        country_name |-> <<"P","a","k","i","s","t","a","n">>, status |-> <<"A","n","s","w","e","r","e","d">>,
        sales_status |-> <<"N","o","t"," ","i","n","t","e","r","e","s","t","e","d">>, sales_amount |-> Number(0, 0),
        first_call_date |-> <<"2","0","2","3","-","0","2","-","0","5">>,
        next_follow_up_date |-> NULL,
        tags |-> <<"K","Y","C"," ","I","s","s","u","e","s"," ","&"," ","C","o","m","p","l","a","i","n","t","s">>],
       [name |-> "Test User 10", agent |-> <<"A","g","e","n","t"," ","E">>,
        email |-> <<"t","e","s","t","1","0","@","e","x","a","m","p","l","e",".","c","o","m">>,
        country_name |-> <<"I","r","a","q">>, status |-> <<"N","o","t"," ","a","n","s","w","e","r","e","d">>,
        sales_status |-> <<"F","o","l","l","o","w"," ","u","p">>, sales_amount |-> Number(0, 0),
        first_call_date |-> <<"2","0","2","3","-","0","2","-","1","0">>,
        next_follow_up_date |-> NULL,
        tags |-> <<"N","/","A">>],
       [name |-> "Test User 11", agent |-> <<"A","g","e","n","t"," ","G">>,
        email |-> <<"t","e","s","t","1","1","@","e","x","a","m","p","l","e",".","c","o","m">>,
        country_name |-> <<"C","y","p","r","u","s">>, status |-> <<"A","n","s","w","e","r","e","d">>,
        sales_status |-> <<"C","o","n","v","e","r","t","e","d">>, sales_amount |-> Number(800, 0),
        first_call_date |-> <<"2","0","2","3","-","0","2","-","1","2">>,
        next_follow_up_date |-> <<"2","0","2","3","-","0","8","-","1","5">>,
        tags |-> <<"N","/","A">>]
    >>

sample_status_replace ==
       (<<"A","n","s","w","e","r","e","d"," ","c","a","l","l">> :> <<"A","n","s","w","e","r","e","d">>)
    @@ (<<"S","i","l","e","n","t"," ","c","a","l","l","/","v","o","i","c","e","m","a","i","l">> :> <<"V","o","i","c","e","m","a","i","l">>)

sample_sales_status_replace ==
       (<<"S","o","l","d">> :> <<"C","o","n","v","e","r","t","e","d">>)
    @@ (<<"D","e","a","l"," ","w","o","n">> :> <<"C","o","n","v","e","r","t","e","d">>)
    @@ (<<"D","e","a","l"," ","c","o","m","p","l","e","t","e">> :> <<"C","o","n","v","e","r","t","e","d">>)
    @@ (<<"L","o","s","t">> :> <<"N","o","t"," ","i","n","t","e","r","e","s","t","e","d">>)
    @@ (<<"N","o"," ","i","n","t","e","r","e","s","t">> :> <<"N","o","t"," ","i","n","t","e","r","e","s","t","e","d">>)

\* The columns the fallback derives from one sample row; src keeps the row (history).
SampleRecord(row) ==
    [agent |-> row.agent,
     email |-> row.email,
     country_name |-> row.country_name,
     status |-> ReplaceValue(sample_status_replace, StrCapitalize(StrStrip(AsTypeStr(row.status)))),
     sales_status |-> ReplaceValue(sample_sales_status_replace,
                                   StrCapitalize(StrStrip(AsTypeStr(row.sales_status)))),
     sales_amount |-> FillNa0(row.sales_amount),
     date_called |-> ToDatetime(row.first_call_date),
     is_initial_call |-> is_initial_call(ToDatetime(row.first_call_date)),
     next_follow_up_date |-> ToDatetime(row.next_follow_up_date),
     issues |-> issues(row.tags),
     call_outcome |-> StrExtract(call_outcome_catalog,
                                 ReplaceValue(sample_status_replace, StrCapitalize(StrStrip(AsTypeStr(row.status))))),
     country_group |-> country_group(row.country_name),
     total_follow_up_calls |-> IF ToDatetime(row.next_follow_up_date) # NaT THEN 1 ELSE 0,
     src |-> row]

\* df after "if not df.empty: ... else: ...": what the loader returned, or the
\* sample frame when it returned nothing.
Frame(loaded) ==
    IF loaded.rows # <<>> THEN loaded
    ELSE [outcome |-> "sample", rows |-> [i \in 1..Len(sample_data) |-> SampleRecord(sample_data[i])]]

----------------------------------------------------------------------------
(* The dashboard over the table a synchronization pass loaded *)

ScenarioRow1 ==
    [agent |-> <<"A">>, email |-> <<"a","@","x",".","c","o","m">>,
     country_name |-> <<"I","n","d","i","a">>, status |-> <<"a","n","s","w","e","r","e","d"," ","c","a","l","l">>,
     sales_status |-> <<"f">>, sales_amount |-> <<"$","1",",","0","0","0">>,
     first_call_date |-> <<"2","0","2","4","-","0","1","-","0","1">>, next_follow_up_date |-> <<"2","0","2","4","-","0","1","-","0","3">>,
     tags |-> <<"B","u","s","y">>]

ScenarioRow2 ==
    [agent |-> <<"A">>, email |-> <<>>,
     country_name |-> <<>>, status |-> <<"L","o","s","t">>,
     sales_status |-> <<>>, sales_amount |-> <<>>,
     first_call_date |-> <<>>, next_follow_up_date |-> <<>>,
     tags |-> <<>>]

SampleRow3 ==
    [agent |-> <<"A">>, email |-> <<"b","@","x",".","c","o","m">>,
     country_name |-> <<"B","r","a","z","i","l">>, status |-> <<"N","o","t"," ","A","n","s","w","e","r","e","d">>,
     sales_status |-> <<"F","o","l","l","o","w"," ","u","p">>, sales_amount |-> <<"0">>,
     first_call_date |-> <<"2","0","2","4","-","0","1","-","0","2">>, next_follow_up_date |-> <<>>,
     tags |-> <<"c","a","l","l"," ","l","a","t","e","r">>]

SampleRow4 ==
    [agent |-> <<"B">>, email |-> <<"c","@","x",".","c","o","m">>,
     country_name |-> <<"I","n","d","i","a">>, status |-> <<"A","N","S","W","E","R","E","D">>,
     sales_status |-> <<"s","o","l","d">>, sales_amount |-> <<"2","5","0",".","5","0">>,
     first_call_date |-> <<"2","0","2","4","-","0","1","-","0","2">>, next_follow_up_date |-> <<"2","0","2","4","-","0","1","-","0","2">>,
     tags |-> <<>>]

SampleRow5 ==
    [agent |-> <<"B">>, email |-> <<"d","@","x",".","c","o","m">>,
     country_name |-> <<"B","r","a","z","i","l">>, status |-> <<" ","v","o","i","c","e","m","a","i","l"," ">>,
     sales_status |-> <<"l","o","s","t">>, sales_amount |-> <<>>,
     first_call_date |-> <<>>, next_follow_up_date |-> <<"2","0","2","4","-","0","1","-","0","1">>,
     tags |-> <<>>]

SampleRow6 ==
    [agent |-> <<>>, email |-> <<"e","@","x",".","c","o","m">>,
     country_name |-> <<>>, status |-> <<"m","a","y","b","e">>,
     sales_status |-> <<>>, sales_amount |-> <<"-","5","0">>,
     first_call_date |-> <<"2","0","2","4","-","0","1","-","0","3">>, next_follow_up_date |-> <<>>,
     tags |-> <<"b","u","s","y">>]

OverflowRow ==
    [agent |-> <<"B">>, email |-> <<"f","@","x",".","c","o","m">>,
     country_name |-> <<"I","n","d","i","a">>, status |-> <<"a","n","s","w","e","r","e","d">>,
     sales_status |-> <<"s","o","l","d">>, sales_amount |-> <<"1","0","0","0","0","0","0","0","0">>,
     first_call_date |-> <<"2","0","2","4","-","0","1","-","0","2">>, next_follow_up_date |-> <<>>,
     tags |-> <<>>]

SampleRows == {ScenarioRow1, ScenarioRow2, SampleRow3, SampleRow4, SampleRow5, SampleRow6}

SampleSheets == UNION {[1..n -> SampleRows] : n \in 0..MaxRows}

Todays == {Date(2024, 1, 2), Date(2024, 1, 4)}
FilterDays == {Date(2024, 1, 1), Date(2024, 1, 2), Date(2024, 1, 3)}

ReportInit ==
    /\ SyncInit
    /\ tableExists = FALSE
    /\ sheetCell = NoCell
    /\ dbCell = NoCell
    /\ canon = NotLoaded
    /\ loadStage = "sheet"
    /\ sheet \in SampleSheets
    /\ today \in Todays
    /\ current_user_df = NoFrame
    /\ criteria = NoCriteria
    /\ filtered_df = <<>>
    /\ shown = NothingShown
    /\ notices = {}
    /\ picked = NotPicked

\* A synchronization pass over the sheet in which every step of the store
\* succeeds, unless an amount does not fit its column: then the insert raises
\* after TRUNCATE has been committed.  The pass ends before it connects to the
\* store when the frame is empty.
SyncSheet ==
    /\ loadStage = "sheet"
    /\ LET frame == df_reordered(sheet)
       IN  IF DfEmpty(frame)
           THEN UNCHANGED <<tableExists, table>>
           ELSE /\ tableExists' = TRUE
                /\ table' = IF \E i \in DOMAIN frame : NumericOverflow(frame[i].sales_amount)
                            THEN <<>>
                            ELSE [i \in 1..Len(frame) |-> InsertedRow(frame[i])]
    /\ loadStage' = "stored"
    /\ UNCHANGED <<hook, header, passVars, rd, sheetCell, dbCell, canon, reportVars>>

\* The dates the two date inputs accept: between data_min_date and data_max_date.
DateChoices(f, now) ==
    {data_min_date(f), data_max_date(f, now)} \cup
    {d \in FilterDays : DateLE(data_min_date(f), d) /\ DateLE(d, data_max_date(f, now))}

\* One run of the dashboard's script over the loaded table: the loader, the
\* filters as the sidebar holds them, and the metrics.  The run stops at the
\* loader when it raises.  A later run over the same table and the same filters
\* computes the same, so a behaviour holds one run.  The run over an empty load,
\* which works on the sample frame, is ScriptRun's.
Rerun ==
    /\ loadStage = "stored"
    /\ LET loaded == load_full_sales_data_from_db(tableExists, table, today)
       IN  /\ loaded.outcome = "raised" \/ loaded.rows # <<>>
           /\ current_user_df' = loaded
           /\ IF loaded.outcome = "raised"
              THEN UNCHANGED <<criteria, filtered_df, shown>>
              ELSE \E a \in FilterOptions(loaded.rows, "agent"),
                      c \in FilterOptions(loaded.rows, "country_name"),
                      s \in FilterOptions(loaded.rows, "status"),
                      sd \in DateChoices(loaded.rows, today),
                      ed \in DateChoices(loaded.rows, today) :
                       /\ DateLE(sd, ed)
                       /\ criteria' = [agent_filter |-> a, country_filter |-> c,
                                       status_filter |-> s, start_date |-> sd, end_date |-> ed]
                       /\ filtered_df' = Filtered(loaded.rows, criteria')
                       /\ shown' = Dashboard(filtered_df', ed)
           /\ notices' = IF loaded.outcome = "raised" THEN {Traceback}
                         ELSE LoadNotices(loaded) \cup FilterNotices(filtered_df')
    /\ loadStage' = "loaded"
    /\ UNCHANGED <<syncVars, rd, sheetCell, dbCell, canon, sheet, today, picked>>

\* "if 'start_date' not in st.session_state: ...": the two keys are set on the
\* first run that reaches these lines and kept afterwards (NaT: key not set).
SessionDefaults(c, f, now) ==
    [c EXCEPT !.start_date = IF @ = NaT THEN data_min_date(f) ELSE @,
              !.end_date = IF @ = NaT THEN data_max_date(f, now) ELSE @]

\* st.sidebar.date_input(value=..., min_value=data_min_date, max_value=data_max_date)
\* raises StreamlitAPIException when the value lies outside the two limits.
DateInputRaises(c, f, now) ==
    \/ ~InRange(c.start_date, data_min_date(f), data_max_date(f, now))
    \/ ~InRange(c.end_date, data_min_date(f), data_max_date(f, now))

\* on_change of the "Start Date" input, given the date the input holds
update_start_date_only(c, d) == [c EXCEPT !.start_date = d]
update_start_date(c, d) ==
    IF ~DateLE(d, c.end_date)
    THEN [c EXCEPT !.start_date = d, !.end_date = d]
    ELSE [c EXCEPT !.start_date = d]

\* on_change of the "End Date" input
update_end_date(c, d) ==
    IF ~DateLE(c.start_date, d)
    THEN [c EXCEPT !.end_date = d, !.start_date = d]
    ELSE [c EXCEPT !.end_date = d]

\* One run of the script with session state c: the loader, the fallback, the
\* session defaults, the date inputs, the filters and the metrics.  An exception
\* ends the run and leaves its traceback on the page.
Script(c) ==
    LET loaded == load_full_sales_data_from_db(tableExists, table, today)
    IN  IF loaded.outcome = "raised"
        THEN /\ current_user_df' = loaded
             /\ criteria' = c
             /\ filtered_df' = <<>>
             /\ shown' = NothingShown
             /\ notices' = {Traceback}
        ELSE /\ current_user_df' = Frame(loaded)
             /\ criteria' = SessionDefaults(c, current_user_df'.rows, today)
             /\ IF DateInputRaises(criteria', current_user_df'.rows, today)
                THEN /\ filtered_df' = <<>>
                     /\ shown' = NothingShown
                     /\ notices' = LoadNotices(loaded) \cup {Traceback}
                ELSE /\ filtered_df' = Filtered(current_user_df'.rows, criteria')
                     /\ shown' = Dashboard(filtered_df', criteria'.end_date)
                     /\ notices' = LoadNotices(loaded) \cup FilterNotices(filtered_df')

\* The sheets of the session: no record, records of different date extents, a
\* record without first_call_date, an amount that does not fit its column.
SessionSheets ==
    {<<>>, <<ScenarioRow1>>, <<SampleRow3, SampleRow6>>, <<ScenarioRow1, SampleRow6>>,
     <<SampleRow5>>, <<OverflowRow>>}

SessionInit ==
    /\ SyncInit
    /\ tableExists = FALSE
    /\ sheetCell = NoCell
    /\ dbCell = NoCell
    /\ canon = NotLoaded
    /\ loadStage = "sheet"
    /\ sheet \in SessionSheets
    /\ today = Latest(Todays)
    /\ current_user_df = NoFrame
    /\ criteria = NoCriteria
    /\ filtered_df = <<>>
    /\ shown = NothingShown
    /\ notices = {}
    /\ picked = NotPicked

\* The sheet's owner replaces its rows.
EditSheet(s) ==
    /\ loadStage = "loaded"
    /\ s # sheet
    /\ sheet' = s
    /\ loadStage' = "sheet"
    /\ UNCHANGED <<syncVars, rd, sheetCell, dbCell, canon, today, current_user_df,
                   criteria, filtered_df, shown, notices, picked>>

\* The page is opened, or refreshed after a synchronization.
ScriptRun ==
    /\ loadStage = "stored"
    /\ Script(criteria)
    /\ loadStage' = "loaded"
    /\ UNCHANGED <<syncVars, rd, sheetCell, dbCell, canon, sheet, today, picked>>

\* The date inputs are on the page when the last run got as far as drawing them.
InputsDrawn == loadStage = "loaded" /\ Traceback \notin notices

\* The user picks a start date: the callback, then the run Streamlit starts.
StartDateInput(d) ==
    /\ InputsDrawn
    /\ d \in DateChoices(current_user_df.rows, today)
    /\ Script(update_start_date(criteria, d))
    /\ picked' = [bound |-> "start", date |-> d,
                   start_date |-> criteria.start_date, end_date |-> criteria.end_date]
    /\ UNCHANGED <<syncVars, rd, loadVars, sheet, today>>

EndDateInput(d) ==
    /\ InputsDrawn
    /\ d \in DateChoices(current_user_df.rows, today)
    /\ Script(update_end_date(criteria, d))
    /\ picked' = [bound |-> "end", date |-> d,
                   start_date |-> criteria.start_date, end_date |-> criteria.end_date]
    /\ UNCHANGED <<syncVars, rd, loadVars, sheet, today>>


----------------------------------------------------------------------------
(* Specifications *)

PassStep(p, outcomes) ==
    \/ ImportFail(p)
    \/ \E ok \in BOOLEAN : LoadServiceAccount(p, ok)
    \/ \E ok \in BOOLEAN : GetClient(p, ok)
    \/ \E o \in outcomes : Fetch(p, o)
    \/ \E ok \in BOOLEAN : Connect(p, ok)
    \/ \E ok \in BOOLEAN : CreateTable(p, ok)
    \/ \E ok \in BOOLEAN : Truncate(p, ok)
    \/ \E ok \in BOOLEAN : InsertRow(p, ok)
    \/ \E ok \in BOOLEAN : CommitInsert(p, ok)
    \/ Finish(p)
    \/ Respond(p)

Request(p) ==
    \E key \in Keys : Unauthorized(p, key) \/ ScriptNotFound(p, key) \/ Launch(p, key)

\* Requests arrive one at a time: the caller serialises the passes.
SerialRequest(p) == (\A q \in Slots : ~Waiting(q)) /\ Request(p)

\* Spec: the webhook and the script, one pass at a time, over every source outcome.
Next ==
    \/ \E p \in Slots : SerialRequest(p)
    \/ \E p \in Slots : PassStep(p, SourceOutcomes)

Spec == Init /\ [][Next]_vars

\* SpecRead: one pass at a time over sheets of at most one row, and the dashboard
\* reading sales_data at any moment.
ReadOutcomes == {o \in SourceOutcomes : Len(o.rows) <= 1}

NextRead ==
    \/ \E p \in Slots : SerialRequest(p)
    \/ \E p \in Slots : PassStep(p, ReadOutcomes)
    \/ ReadTable

SpecRead == Init /\ [][NextRead]_vars

\* SpecHook: MaxRequests requests, each of which may arrive while earlier ones are
\* still being served (the Flask development server handles each request in its
\* own thread, and sync_sheets takes no lock).
ConcurrentRequest(p) == hook[p] = "idle" /\ Request(p)

HookOutcomes == {o \in SourceOutcomes : Len(o.rows) = 1 /\ ~DfEmpty(fetch_data_from_gsheets(o))}

NextHook ==
    \/ \E p \in Slots : ConcurrentRequest(p)
    \/ \E p \in Slots : PassStep(p, HookOutcomes)

SpecHook == Init /\ [][NextHook]_vars

\* SpecLoad: the status and sales_status of one sheet row, stored and loaded.
NextLoad ==
    \/ StoreCell
    \/ LoadCell

SpecLoad == LoadInit /\ [][NextLoad]_vars

\* SpecFields: the sales_amount, first_call_date and tags of one sheet row,
\* synchronized and loaded.
NextFields ==
    \/ SyncFields
    \/ LoadFields

SpecFields == FieldsInit /\ [][NextFields]_vars

\* SpecReport: a sheet of at most MaxRows rows is synchronized, and the dashboard
\* runs over the table under every choice of its filters.
NextReport ==
    \/ SyncSheet
    \/ Rerun

SpecReport == ReportInit /\ [][NextReport]_vars

\* SpecSession: one browser session over a sheet that is edited and synchronized
\* again between the runs of the dashboard; the agent, country and status filters
\* stay at 'All'.
NextSession ==
    \/ SyncSheet
    \/ ScriptRun
    \/ \E d \in FilterDays \cup Todays \cup {Date(2023, 1, 1), Date(2023, 2, 12)} : StartDateInput(d)
    \/ \E d \in FilterDays \cup Todays \cup {Date(2023, 1, 1), Date(2023, 2, 12)} : EndDateInput(d)
    \/ \E s \in SessionSheets : EditSheet(s)

SpecSession == SessionInit /\ [][NextSession]_vars


----------------------------------------------------------------------------
(* Properties of the synchronization pass *)

Range(s) == {s[i] : i \in DOMAIN s}
Count(s, x) == Cardinality({i \in DOMAIN s : s[i] = x})

\* The same rows, up to insertion order.
SameRows(a, b) ==
    /\ Len(a) = Len(b)
    /\ \A x \in Range(a) \cup Range(b) : Count(a, x) = Count(b, x)

Exited(p) == pc[p] = "exited"

\* The records of pass p that the email filter accepted, as built and as inserted.
AcceptedBuilt(p) == df_sheets(p)
AcceptedStored(p) == data_to_insert(df_sheets(p))

\* C1: whenever a pass has ended, the table holds either the rows it held when the
\* pass began or the accepted records of the pass, and no other row set.
C1_CommitsOrRollsBackAsAWhole ==
    \A p \in Slots :
        Exited(p) => SameRows(table, prior[p]) \/ SameRows(table, AcceptedStored(p))

\* C2: a read of sales_data made while a pass is in progress returns the complete
\* prior row set or the complete new row set.
C2_ReadersSeePriorOrNew ==
    [][ (rd' # rd /\ Cardinality(Running) = 1) =>
          LET p == CHOOSE q \in Running : TRUE
          IN  SameRows(rd'.rows, prior[p]) \/ SameRows(rd'.rows, NewRows(p)) ]_vars

\* C3: a pass in which the store could not be reached or written does not end with
\* exit status 0, and its request is not answered 200.
C3_StoreFailureIsNotSuccess ==
    \A p \in Slots :
        fault[p] # "none" =>
            /\ Exited(p) => rc[p] # 0
            /\ hook[p] # "r200"

\* The pass ended because the client could not be initialised or the sheet not read.
SourceUnreadable(p) ==
    /\ Exited(p)
    /\ src[p].kind \in SourceFailures \cup {"ServiceAccountFile", "ClientInit"}

\* C4: a pass whose upstream source could not be read has executed no CREATE,
\* TRUNCATE or INSERT, and has left the table as it found it.
C4_SourceFailureLeavesStoreUntouched ==
    \A p \in Slots :
        SourceUnreadable(p) => ops[p] = {} /\ table = prior[p]

C4_Witness ==
    \E p \in Slots :
        /\ SourceUnreadable(p)
        /\ src[p].kind = "SpreadsheetNotFound"
        /\ prior[p] # <<>>

\* C5: at most one synchronization pass is in progress at any time.
C5_SingleFlight == Cardinality(Running) <= 1

\* The pass read the same source as the pass before it and met the same store outcome.
Repeated(p) == Exited(p) /\ rerun[p] /\ prevFault[p] = fault[p]

\* C6: a pass that reads the same source as the pass before it, and meets the same
\* store outcome, leaves the row set that the pass before it left, whatever the
\* table held before the first of the two.
C6_Idempotent ==
    \A p \in Slots : Repeated(p) => SameRows(table, prior[p])

C6_Witness ==
    \E p \in Slots :
        /\ Repeated(p)
        /\ fault[p] = "none"
        /\ "INSERT" \in ops[p]
        /\ Len(table) = MaxRows

NullOrEmptyEmail(r) == r.email = NULL \/ r.email = <<>>
RejectedCount(rows) == Cardinality({i \in DOMAIN rows : NullOrEmptyEmail(rows[i])})

\* C7: after a pass over N source rows of which M have a null or empty email, the
\* table holds exactly N - M rows, equal field for field to the accepted built records.
C7_RoundTrip ==
    \A p \in Slots :
        (Exited(p) /\ src[p].kind = "rows" /\ fault[p] = "none") =>
            /\ Len(table) = Len(src[p].rows) - RejectedCount(src[p].rows)
            /\ table = AcceptedBuilt(p)

\* C8: after a pass that completed its insert, no stored row has a null or empty email.
C8_NoStoredRowWithoutEmail ==
    \A p \in Slots :
        (Exited(p) /\ fault[p] = "none" /\ "INSERT" \in ops[p]) =>
            \A i \in DOMAIN table : ~NullOrEmptyEmail(table[i])

----------------------------------------------------------------------------
(* Properties of the loader's vocabulary mapping *)

Loaded == loadStage = "loaded"

StatusVocabulary == {<<"A","n","s","w","e","r","e","d">>, <<"N","o","t"," ","a","n","s","w","e","r","e","d">>, <<"I","n","v","a","l","i","d"," ","n","u","m","b","e","r">>, <<"V","o","i","c","e","m","a","i","l">>}
SalesStatusVocabulary == {<<"C","o","n","v","e","r","t","e","d">>, <<"N","o","t"," ","i","n","t","e","r","e","s","t","e","d">>, <<"F","o","l","l","o","w"," ","u","p">>}

\* C9: after the load, status is one of Answered, Not answered, Invalid number,
\* Voicemail or null, and sales_status is one of Converted, Not interested,
\* Follow up or null, spelled so.
C9_ClosedVocabularies ==
    Loaded =>
        /\ canon.status \in StatusVocabulary \cup {NULL}
        /\ canon.sales_status \in SalesStatusVocabulary \cup {NULL}

ConvertedSamples == {<<"s","o","l","d">>, <<"d","e","a","l"," ","w","o","n">>, <<"d","e","a","l"," ","c","o","m","p","l","e","t","e">>}

\* C10: 'sold', 'deal won' and 'deal complete', in any casing and with spaces around
\* them, load as Converted; a value that is in neither dictionary, a blank one
\* included, loads as null.
C10_StrictAllowList ==
    Loaded =>
        /\ sheetCell.sales_status \in UNION {RawVariants(s) : s \in ConvertedSamples}
               => canon.sales_status = <<"C","o","n","v","e","r","t","e","d">>
        /\ sheetCell.sales_status \in UNION {RawVariants(s) : s \in UnmappedSamples}
               => canon.sales_status = NULL
        /\ sheetCell.status \in UNION {RawVariants(s) : s \in UnmappedSamples}
               => canon.status = NULL

C10_Witness ==
    /\ Loaded
    /\ sheetCell.sales_status = Padded(<<"D","e","a","l"," ","W","o","n">>, MaxPad)
    /\ canon.sales_status = <<"C","o","n","v","e","r","t","e","d">>
    /\ sheetCell.status = Padded(<<"S","o","l","d"," ","O","u","t">>, MaxPad)
    /\ canon.status = NULL

----------------------------------------------------------------------------
(* Properties of the dashboard's filters and metrics *)

\* The dashboard has run over records loaded from the store.
Rendered == loadStage = "loaded" /\ current_user_df.outcome = "loaded"

Records == current_user_df.rows

\* The rate r is the number p / q.
RateIs(r, p, q) == r.den > 0 /\ q > 0 /\ r.num * q = p * r.den

\* The stored sales_status is one that the loader maps to the follow-up value.
MapsToFollowUp(row) ==
    NormaliseKey(row.sales_status) \in {<<"f","o","l","l","o","w"," ","u","p">>, <<"f">>}

GroupTables == {shown.agent_stats, shown.country_stats}

\* C11: in every group of the per-agent and of the per-country table, the
\* sales-follow-up rate is 100 times the number of the group's records whose stored
\* sales_status maps to the follow-up value, divided by the size of the group.
C11_SalesFollowUpRate ==
    Rendered =>
        \A t \in {u \in GroupTables : u.shown} :
            \A g \in DOMAIN t.groups :
                LET members == t.groups[g].members
                IN  RateIs(t.groups[g].Sales_Follow_Up_Rate,
                           100 * CountWhere(members, LAMBDA r : MapsToFollowUp(r.src)),
                           Len(members))

\* The records of f whose next_follow_up_date is not null and not after ref.
DueBy(f, ref) ==
    Cardinality({i \in DOMAIN f :
        f[i].next_follow_up_date # NaT /\ DateLE(f[i].next_follow_up_date, ref)})

\* C12: total_follow_up_calls of a loaded record counts its next_follow_up_date when
\* it is not null and not after the day of the load, and every follow-up total
\* shown for the filtered subset (overall, per agent, per country, report) is the
\* number of its records whose next_follow_up_date is not null and not after end_date.
C12_FollowUpTotalsUseEndDate ==
    Rendered =>
        /\ \A i \in DOMAIN Records :
               Records[i].total_follow_up_calls = DueBy(<<Records[i]>>, today)
        /\ shown.overall.shown =>
               shown.overall.total_follow_up_calls_overall = DueBy(filtered_df, criteria.end_date)
        /\ shown.report.shown =>
               shown.report.total_follow_up_calls_report = DueBy(filtered_df, criteria.end_date)
        /\ \A t \in {u \in GroupTables : u.shown} :
               \A g \in DOMAIN t.groups :
                   t.groups[g].Total_Follow_Up_Calls = DueBy(t.groups[g].members, criteria.end_date)

\* The record satisfies every active predicate of the criteria.
Satisfies(r, c) ==
    /\ c.agent_filter = All \/ r.agent = c.agent_filter
    /\ c.country_filter = All \/ r.country_name = c.country_filter
    /\ c.status_filter = All \/ r.status = c.status_filter
    /\ r.date_called # NaT
    /\ DateOrdinal(c.start_date) <= DateOrdinal(r.date_called)
    /\ DateOrdinal(r.date_called) <= DateOrdinal(c.end_date)

\* C14: the filtered subset holds, in their order, exactly the records that satisfy
\* every active predicate and whose date_called lies in [start_date, end_date],
\* both ends included; a record without date_called is left out, and records that
\* all lack date_called give the empty subset.
C14_FilterSemantics ==
    Rendered =>
        /\ filtered_df = SelectSeq(Records, LAMBDA r : Satisfies(r, criteria))
        /\ \A i \in DOMAIN filtered_df : filtered_df[i].date_called # NaT
        /\ (\A i \in DOMAIN Records : Records[i].date_called = NaT) => filtered_df = <<>>

C14_Witness ==
    /\ Rendered
    /\ criteria.agent_filter # All
    /\ Len(filtered_df) = 1
    /\ filtered_df[1].date_called = criteria.end_date
    /\ filtered_df[1].date_called = criteria.start_date
    /\ \E i \in DOMAIN Records : Records[i].date_called = NaT /\ Records[i].agent = criteria.agent_filter

\* C15: the country predicate applied before the agent predicate selects the records
\* that the agent predicate applied before the country predicate selects, and
\* filtered_df is the subset either order leads to.
C15_AgentCountryCommute ==
    Rendered =>
        LET a == criteria.agent_filter
            c == criteria.country_filter
        IN  /\ FilterAgent(FilterCountry(Records, c), a) = FilterCountry(FilterAgent(Records, a), c)
            /\ filtered_df = FilterDate(FilterStatus(FilterAgent(FilterCountry(Records, c), a),
                                                     criteria.status_filter),
                                        criteria.start_date, criteria.end_date)

C15_Witness ==
    /\ Rendered
    /\ criteria.agent_filter # All
    /\ criteria.country_filter # All
    /\ FilterAgent(Records, criteria.agent_filter) # Records
    /\ FilterCountry(Records, criteria.country_filter) # Records
    /\ filtered_df # <<>>

\* The rates the dashboard shows.
ShownRates ==
    (IF shown.overall.shown THEN {shown.overall.answered_rate} ELSE {})
    \cup (IF shown.report.shown THEN {shown.report.answered_rate_report} ELSE {})
    \cup UNION {UNION {{t.groups[g].Answered_Rate, t.groups[g].Sales_Follow_Up_Rate} :
                           g \in DOMAIN t.groups} :
                    t \in {u \in GroupTables : u.shown}}
    \cup (IF shown.individual_agent.shown
          THEN UNION {{shown.individual_agent.agents[a].answered_rate,
                       shown.individual_agent.agents[a].sales_follow_up_rate} :
                          a \in DOMAIN shown.individual_agent.agents}
          ELSE {})

InPercentRange(r) == r.den > 0 /\ 0 <= r.num /\ r.num <= 100 * r.den
IsZeroRate(r) == r.den > 0 /\ r.num = 0

C18_BuilderIsTotal ==
    (loadStage = "loaded" /\ tableExists) =>
        /\ current_user_df.outcome = "loaded"
        /\ Len(Records) = Len(table)
        /\ \A i \in DOMAIN Records :
               /\ Records[i].src = table[i]
               /\ {"date_called", "is_initial_call", "issues", "call_outcome",
                   "country_group", "total_follow_up_calls"} \subseteq DOMAIN Records[i]

Scenario == <<ScenarioRow1, ScenarioRow2>>

\* The number x equals the integer n.
NumberIs(x, n) == x # NaN /\ x.m = n * Pow10(x.e)

----------------------------------------------------------------------------
(* Properties of the fields of one row *)

\* C13: is_initial_call is 1 when the sheet's first_call_date parses to a date and
\* 0 when it does not (an empty, an unparseable or a missing one), and date_called
\* is the parsed date.
C13_InitialCallIffDateParses ==
    Loaded =>
        /\ canon.is_initial_call = (IF ToDatetime(sheetCell.first_call_date) # NaT THEN 1 ELSE 0)
        /\ canon.date_called = ToDatetime(sheetCell.first_call_date)

C13_Witness ==
    /\ Loaded
    /\ sheetCell.first_call_date = <<"2","0","2","4","-","0","2","-","2","9">>
    /\ canon.is_initial_call = 1
    /\ canon.date_called = Date(2024, 2, 29)

\* The sheet's sales_amount is missing or no number once '$' and ',' are removed.
Unparseable(v) == v = NULL \/ ToNumeric(StripCurrency(v)) = NaN

\* C17: the loaded sales_amount is a number, never null, that is not negative, and
\* is 0 when the sheet's value is unparseable or missing.
C17_AmountNonNegative ==
    Loaded =>
        /\ canon.sales_amount # NaN
        /\ canon.sales_amount.m >= 0
        /\ Unparseable(sheetCell.sales_amount) => canon.sales_amount.m = 0

CatalogLabels == {issue_catalog[k] : k \in DOMAIN issue_catalog}

\* The catalog terms that occur in the text, whatever the case of the letters.
Occurring(s) ==
    {k \in DOMAIN issue_catalog : \E i \in 1..Len(s) : MatchAt(issue_catalog, s, i, k)}

\* The place in the text where term k first occurs.
FirstPlace(s, k) ==
    CHOOSE i \in 1..Len(s) :
        /\ MatchAt(issue_catalog, s, i, k)
        /\ \A j \in 1..(i - 1) : ~MatchAt(issue_catalog, s, j, k)

\* The term matched first: the one that occurs leftmost and, among those that
\* occur at that place, the one the catalog lists first.
FirstMatched(s) ==
    CHOOSE k \in Occurring(s) :
        \A h \in Occurring(s) :
            \/ FirstPlace(s, k) < FirstPlace(s, h)
            \/ FirstPlace(s, k) = FirstPlace(s, h) /\ k <= h

\* C19: issues is 'N/A' when tags is absent or holds no catalog term, and else the
\* first catalog term matched in tags, spelled as the catalog spells it.
C19_IssuesFromCatalog ==
    Loaded =>
        LET tags == FetchedText(sheetCell.tags)
        IN  IF Occurring(tags) = {}
            THEN canon.issues = NA
            ELSE canon.issues \in CatalogLabels /\ canon.issues = issue_catalog[FirstMatched(tags)]

----------------------------------------------------------------------------
(* Properties of the canonical records, the notices and the session *)

Unknown == <<"U","n","k","n","o","w","n">>

\* C21: every record the loader builds has a non-empty agent and a non-empty
\* country_name; a sheet row whose agent (country_name) is null or empty yields
\* a record whose agent (country_name) is 'Unknown'.
C21_UnknownDefaults ==
    Rendered =>
        \A i \in DOMAIN Records :
            /\ Records[i].agent \notin {NULL, <<>>}
            /\ Records[i].country_name \notin {NULL, <<>>}
            /\ Records[i].src.agent = NULL => Records[i].agent = Unknown
            /\ Records[i].src.country_name = NULL => Records[i].country_name = Unknown

Authorized(p) == header[p] = WEBHOOK_SECRET_KEY
Responded(p) == hook[p] \in {"r401", "r200", "r500"}
NotLaunched(p) == pc[p] = "none" /\ rc[p] = -1 /\ ops[p] = {}

\* The answer of a request whose script ran mirrors the script's exit status.
Mirrored(p) ==
    /\ Exited(p)
    /\ hook[p] = "r200" <=> rc[p] = 0
    /\ hook[p] = "r500" <=> rc[p] # 0

\* C22 as stated: a request with a wrong X-Secret-Key gets 401 and launches
\* nothing; every authorized request launches the script, and its answer is 200
\* exactly when the script's exit status is 0 and 500 otherwise.
C22_EveryAuthorizedRequestLaunches ==
    \A p \in Slots :
        hook[p] # "idle" =>
            IF Authorized(p)
            THEN pc[p] # "none" /\ (Responded(p) => Mirrored(p))
            ELSE hook[p] = "r401" /\ NotLaunched(p)

\* C22: a request with a wrong X-Secret-Key gets 401 and launches nothing; an
\* authorized request either finds no script and gets 500 with nothing launched,
\* or launches the script once, in the step that takes the request, is answered
\* only after the script has exited, with 200 exactly when the exit status is 0
\* and 500 otherwise.
C22_ExitStatusSurfaced ==
    /\ [](\A p \in Slots :
            hook[p] # "idle" =>
                IF Authorized(p)
                THEN IF pc[p] = "none" THEN hook[p] = "r500" /\ NotLaunched(p)
                     ELSE Responded(p) => Mirrored(p)
                ELSE hook[p] = "r401" /\ NotLaunched(p))
    /\ [][\A p \in Slots :
            pc'[p] = "start" /\ pc[p] # "start" =>
                hook[p] = "idle" /\ hook'[p] = "waiting" /\ header'[p] = WEBHOOK_SECRET_KEY]_vars

C22_Witness ==
    \E p, q \in Slots :
        /\ hook[p] = "r401" /\ ~Authorized(p) /\ NotLaunched(p)
        /\ hook[q] = "r500" /\ Authorized(q) /\ Exited(q) /\ rc[q] = 1

StoreEmpty == ~tableExists \/ table = <<>>
Completed == loadStage = "loaded" /\ Traceback \notin notices

NoMetricsShown ==
    /\ shown.overall = NotShown
    /\ shown.agent_stats = NotShown
    /\ shown.individual_agent = NotShown
    /\ shown.report = NotShown
    /\ DOMAIN shown.country_stats.groups = {}

C23_WitnessNoMatch ==
    /\ Completed
    /\ ~StoreEmpty /\ filtered_df = <<>> /\ picked.bound # "none"
    /\ notices = {NoMetricsNotice}

Untouched == picked = NotPicked
FrameDrawn == loadStage = "loaded" /\ current_user_df.outcome \in {"loaded", "sample"}

\* C24: while the user has changed neither date, start_date and end_date are the
\* earliest and the latest date_called of the records of the last load, and both
\* are today's date when no record has a date_called.
C24_DefaultRangeSpansData ==
    FrameDrawn /\ Untouched =>
        IF DatesCalled(current_user_df.rows) # {}
        THEN /\ criteria.start_date = Earliest(DatesCalled(current_user_df.rows))
             /\ criteria.end_date = Latest(DatesCalled(current_user_df.rows))
        ELSE criteria.start_date = today /\ criteria.end_date = today

\* C24, for loads in which some record has a date_called: the range of an
\* untouched session is the extent of the last load.
C24_StaleAfterLaterLoad ==
    FrameDrawn /\ Untouched /\ DatesCalled(current_user_df.rows) # {} =>
        /\ criteria.start_date = Earliest(DatesCalled(current_user_df.rows))
        /\ criteria.end_date = Latest(DatesCalled(current_user_df.rows))

\* C28: start_date <= end_date in every state of the session; the last callback
\* has set its own bound to the date it was given, and the other bound is the one
\* the callback found unless that broke the order, in which case it is the date
\* given.
C28_RangeStaysOrdered ==
    /\ criteria.start_date # NaT => DateLE(criteria.start_date, criteria.end_date)
    /\ picked.bound = "start" =>
           /\ criteria.start_date = picked.date
           /\ criteria.end_date = IF DateLE(picked.date, picked.end_date)
                                  THEN picked.end_date ELSE picked.date
    /\ picked.bound = "end" =>
           /\ criteria.end_date = picked.date
           /\ criteria.start_date = IF DateLE(picked.start_date, picked.date)
                                    THEN picked.start_date ELSE picked.date

C28_Witness ==
    /\ picked.bound = "start"
    /\ DateLE(picked.start_date, picked.end_date)
    /\ ~DateLE(picked.date, picked.end_date)
    /\ criteria.start_date = picked.date /\ criteria.end_date = picked.date

\* C29: every record the dashboard works on, and every record of filtered_df its
\* metrics are computed from, was built from a row of sales_data.
C29_RecordsComeFromTheStore ==
    FrameDrawn =>
        /\ \A i \in DOMAIN current_user_df.rows :
               tableExists /\ current_user_df.rows[i].src \in Range(table)
        /\ \A i \in DOMAIN filtered_df :
               tableExists /\ filtered_df[i].src \in Range(table)

\* The sum of a column over the rows ks of a groupby table.
RECURSIVE SumGroups(_, _, _)
SumGroups(t, ks, name) ==
    IF ks = {} THEN 0
    ELSE LET k == CHOOSE g \in ks : TRUE
         IN  t[k][name] + SumGroups(t, ks \ {k}, name)

\* C30: every record of filtered_df is among the members of exactly one row of
\* the per-agent table and of exactly one row of the per-country table, and the
\* rows' initial calls add up to the total of initial calls shown on top.
C30_GroupsPartitionSubset ==
    Rendered /\ NotEmpty(filtered_df) =>
        \A t \in GroupTables :
            /\ \A i \in DOMAIN filtered_df :
                   Cardinality({g \in DOMAIN t.groups :
                                    filtered_df[i] \in Range(t.groups[g].members)}) = 1
            /\ SumGroups(t.groups, DOMAIN t.groups, "Total_Initial_Calls")
                   = shown.overall.total_initial_calls

----------------------------------------------------------------------------
(* Properties of the steps of a pass *)

\* C25: a pass truncates only after it has created the table and inserts only
\* after it has truncated; while it has inserted rows that are not committed the
\* table is empty, and rows are committed only to an empty table.
C25_CreateTruncateInsert ==
    /\ [](\A p \in Slots :
            /\ "TRUNCATE" \in ops[p] => "CREATE" \in ops[p]
            /\ "INSERT" \in ops[p] => "TRUNCATE" \in ops[p]
            /\ txn[p] # <<>> => table = <<>>)
    /\ [][table' # table /\ table' # <<>> => table = <<>>]_vars

C25_Witness ==
    \E p \in Slots :
        /\ ops[p] = {"CREATE", "TRUNCATE", "INSERT"}
        /\ prior[p] # <<>>
        /\ txn[p] # <<>> /\ table = <<>>

\* C26: when two passes that read the same sheet have both ended without a
\* failing step, the table holds each accepted record exactly once.
C26_ConcurrentPassesLeaveOneCopy ==
    \A p, q \in Slots :
        /\ p # q /\ Exited(p) /\ Exited(q)
        /\ src[p] = src[q] /\ src[p].kind = "rows"
        /\ fault[p] = "none" /\ fault[q] = "none"
        => SameRows(table, AcceptedStored(p))

\* C27: once a step of the bulk insert of a pass has failed, the table holds none
\* of the accepted records of the pass, so no non-empty part of them.
C27_FailedInsertLeavesNothing ==
    \A p \in Slots :
        fault[p] \in {"insert", "commit"} =>
            /\ \A r \in Range(AcceptedStored(p)) : Count(table, r) = 0
            /\ ~(/\ table # <<>>
                 /\ \A r \in Range(table) : Count(table, r) <= Count(AcceptedStored(p), r)
                 /\ ~SameRows(table, AcceptedStored(p)))

C27_Witness ==
    \E p \in Slots :
        /\ fault[p] = "insert" /\ "INSERT" \in ops[p] /\ Exited(p)
        /\ Len(AcceptedStored(p)) = 2
        /\ prior[p] # <<>> /\ table = <<>>

====
